---- MODULE Spec2Model ----
(***************************************************************************)
(* Model of src/main.py: the Myntra product scraper.                       *)
(*                                                                         *)
(* One request is followed through fetch_myntra_product: URL validation,   *)
(* the outbound GET, the status and block-page checks, the script scan,    *)
(* the JSON decode and the field mapping that ends in ProductResponse.     *)
(* Python values are tagged records, so that truthiness, dict access and   *)
(* int() behave as they do in the interpreter, exceptions included.        *)
(***************************************************************************)
EXTENDS Integers, Sequences, FiniteSets, TLC

VARIABLES pc, url, fetches, resp, script_text, raw_data, data, outcome, stages

vars == <<pc, url, fetches, resp, script_text, raw_data, data, outcome, stages>>

(***************************************************************************)
(* Bounds of the explored inputs.                                          *)
(***************************************************************************)
MaxHostLen == 2
MaxScripts == 2
MaxPrice == 2

(***************************************************************************)
(* Python values decoded by json.loads, tagged with their type.            *)
(* A float is kept as a number of halves (v = 3 is 1.5); a string of       *)
(* decimal digits is kept as the number it spells ("numstr").              *)
(***************************************************************************)
None == [t |-> "null"]
PyBool(b) == [t |-> "bool", v |-> b]
PyInt(n) == [t |-> "int", v |-> n]
PyFloat(h) == [t |-> "float", v |-> h]
PyStr(s) == [t |-> "str", v |-> s]
PyNumStr(n) == [t |-> "numstr", v |-> n]
PyList(s) == [t |-> "list", v |-> s]
PyDict(f) == [t |-> "map", v |-> f]
Raise(e) == [t |-> "raise", v |-> e]

EmptyDict == PyDict(<<>>)
EmptyList == PyList(<<>>)

IsErr(x) == x.t = "raise"
IsDict(x) == x.t = "map"
IsList(x) == x.t = "list"
IsStr(x) == x.t \in {"str", "numstr", "floatstr"}

\* Python truth value of x (bool(x)).
Truthy(x) ==
    CASE x.t = "null" -> FALSE
      [] x.t = "bool" -> x.v
      [] x.t = "int" -> x.v # 0
      [] x.t = "float" -> x.v # 0
      [] x.t = "str" -> x.v # ""
      [] x.t \in {"numstr", "floatstr"} -> TRUE
      [] x.t = "list" -> Len(x.v) > 0
      [] x.t = "map" -> DOMAIN x.v # {}
      [] OTHER -> FALSE

\* x.get(k, d): only a dict has .get; anything else raises AttributeError.
GetDefault(x, k, d) ==
    IF IsErr(x) THEN x
    ELSE IF ~IsDict(x) THEN Raise("AttributeError")
    ELSE IF k \in DOMAIN x.v THEN x.v[k] ELSE d

\* x.get(k)
Get(x, k) == GetDefault(x, k, None)

\* x[0] for a truthy x.
First(x) ==
    CASE x.t = "list" -> x.v[1]
      [] x.t \in {"str", "numstr", "floatstr"} -> PyStr("c")
      [] x.t = "map" -> Raise("KeyError")
      [] OTHER -> Raise("TypeError")

\* Truncation toward zero of h halves.
TruncHalves(h) == IF h >= 0 THEN h \div 2 ELSE -((-h) \div 2)

\* int(x)
PyIntCast(x) ==
    CASE x.t = "int" -> PyInt(x.v)
      [] x.t = "bool" -> PyInt(IF x.v THEN 1 ELSE 0)
      [] x.t = "float" -> PyInt(TruncHalves(x.v))
      [] x.t = "numstr" -> PyInt(x.v)
      [] x.t \in {"str", "floatstr"} -> Raise("ValueError")
      [] OTHER -> Raise("TypeError")

\* a or b, with b evaluated only when a is falsy; an exception in a wins.
OrElse(a, b) == IF IsErr(a) THEN a ELSE IF Truthy(a) THEN a ELSE b

(***************************************************************************)
(* The field mapping of fetch_myntra_product, statement by statement.      *)
(* Each operator yields the value the statement assigns, or Raise(e) when  *)
(* the statement raises e.                                                 *)
(***************************************************************************)

\* Variant: descend whenever the key is present, whatever it holds.
EffectiveRecordByKey(raw) ==
    IF "pdpData" \in DOMAIN raw.v THEN raw.v["pdpData"] ELSE raw

\* data = raw_data.get("pdpData") or raw_data
EffectiveRecord(raw) == OrElse(Get(raw, "pdpData"), raw)

\* Variant: data.get("product") without the {} default.
TitleOfNoDefault(d) ==
    OrElse(Get(d, "name"),
           OrElse(Get(Get(d, "product"), "productName"),
                  PyStr("Unknown Product")))

\* title = data.get("name") or data.get("product", {}).get("productName")
\*         or "Unknown Product"
TitleOf(d) ==
    OrElse(Get(d, "name"),
           OrElse(Get(GetDefault(d, "product", EmptyDict), "productName"),
                  PyStr("Unknown Product")))

\* The image descent: media, albums, images, the first image's three fields,
\* and the final empty-string default.
ImageOf(d) ==
    LET media == OrElse(Get(d, "media"), EmptyDict)
        albums == OrElse(Get(media, "albums"), EmptyList)
        images == OrElse(Get(albums.v[1], "images"), EmptyList)
        img == First(images)
        picked == OrElse(Get(img, "secureSrc"),
                         OrElse(Get(img, "imageURL"), Get(img, "src")))
        primary_image ==
            IF IsErr(albums) THEN albums
            ELSE IF Truthy(albums) /\ IsList(albums)
                 THEN IF IsErr(images) THEN images
                      ELSE IF Truthy(images) THEN picked ELSE None
                 ELSE None
    IN  IF IsErr(primary_image) THEN primary_image
        ELSE IF ~Truthy(primary_image) THEN PyStr("") ELSE primary_image

\* price_info = data.get("price") or {}
PriceInfoOf(d) == OrElse(Get(d, "price"), EmptyDict)

\* Variant: the nested "marked" field is tried before the nested "mrp".
OriginalPriceOfMarkedFirst(d, price_info) ==
    OrElse(Get(d, "mrp"),
           OrElse(Get(price_info, "marked"),
                  OrElse(Get(price_info, "mrp"), PyInt(0))))

\* original_price = data.get("mrp") or price_info.get("mrp")
\*                  or price_info.get("marked") or 0
OriginalPriceOf(d, price_info) ==
    OrElse(Get(d, "mrp"),
           OrElse(Get(price_info, "mrp"),
                  OrElse(Get(price_info, "marked"), PyInt(0))))

\* Variant: the chain ends in 0 instead of the resolved original price.
DiscountedPriceOfZero(d, price_info, original_price) ==
    OrElse(Get(d, "discountedPrice"),
           OrElse(Get(price_info, "discountedPrice"),
                  OrElse(Get(price_info, "effective"), PyInt(0))))

\* discounted_price = data.get("discountedPrice")
\*                    or price_info.get("discountedPrice")
\*                    or price_info.get("effective") or original_price
DiscountedPriceOf(d, price_info, original_price) ==
    OrElse(Get(d, "discountedPrice"),
           OrElse(Get(price_info, "discountedPrice"),
                  OrElse(Get(price_info, "effective"), original_price)))

\* flags = data.get("flags") or {}; in_stock = not flags.get("outOfStock", False)
InStockOf(d) ==
    LET flags == OrElse(Get(d, "flags"), EmptyDict)
        out == GetDefault(flags, "outOfStock", PyBool(FALSE))
    IN  IF IsErr(out) THEN out ELSE PyBool(~Truthy(out))

\* Variant: x or 0, without the int().
PriceCastMissing(x) == OrElse(x, PyInt(0))

\* int(x or 0)
PriceCast(x) == PyIntCast(OrElse(x, PyInt(0)))

\* A str field of the pydantic model: a str is kept; a number is either
\* rejected or, when the installed pydantic coerces (lax), turned into its
\* decimal string; anything else is rejected.
StrField(x, lax) ==
    IF IsStr(x) THEN x
    ELSE IF lax /\ x.t = "int" THEN PyNumStr(x.v)
    ELSE IF lax /\ x.t = "float" THEN [t |-> "floatstr", v |-> x.v]
    ELSE IF lax /\ x.t = "bool" THEN PyStr(IF x.v THEN "True" ELSE "False")
    ELSE Raise("ValidationError")

\* The first exception among the values xs, in order, or None.
FirstRaise(xs) ==
    LET bad == {i \in 1..Len(xs) : IsErr(xs[i])}
    IN  IF bad = {} THEN None
        ELSE xs[CHOOSE i \in bad : \A j \in bad : i <= j]

\* ProductResponse(title=..., primary_image=..., original_price=int(...),
\*                 discounted_price=int(...), in_stock=bool(in_stock))
ProductResponse(title, image, original, discounted, in_stock, lax) ==
    LET op == PriceCast(original)
        dp == PriceCast(discounted)
        t == StrField(title, lax)
        im == StrField(image, lax)
        err == FirstRaise(<<op, dp, t, im>>)
    IN  IF IsErr(err) THEN err
        ELSE [t |-> "record",
              title |-> t,
              primary_image |-> im,
              original_price |-> op,
              discounted_price |-> dp,
              in_stock |-> PyBool(Truthy(in_stock))]

\* Steps 5 and 6 of fetch_myntra_product on the effective record d.
MapRecord(d, lax) ==
    LET title == TitleOf(d)
        primary_image == ImageOf(d)
        price_info == PriceInfoOf(d)
        original_price == OriginalPriceOf(d, price_info)
        discounted_price == DiscountedPriceOf(d, price_info, original_price)
        in_stock == InStockOf(d)
        err == FirstRaise(<<title, primary_image, price_info,
                            original_price, discounted_price, in_stock>>)
    IN  IF IsErr(err) THEN err
        ELSE ProductResponse(title, primary_image, original_price,
                             discounted_price, in_stock, lax)

(***************************************************************************)
(* URLs.  A URL is kept as the parts urlparse separates; text is a         *)
(* sequence of labels, and "myntra.com" is the two labels of Domain.       *)
(***************************************************************************)
Domain == <<"myntra", ".com">>

\* t in s, for sequences of labels.
Contains(s, t) ==
    \E i \in 0..(Len(s) - Len(t)) : SubSeq(s, i + 1, i + Len(t)) = t

\* urlparse(url).netloc: everything between "//" and the path, that is
\* userinfo "@" host ":port" with the optional parts left out when empty.
Netloc(u) ==
    (IF u.userinfo = <<>> THEN <<>> ELSE u.userinfo \o <<"@">>)
        \o u.host \o u.port

\* "myntra.com" not in parsed.netloc
Rejected(u) == ~Contains(Netloc(u), Domain)

(***************************************************************************)
(* Outcomes of a request: the ProductResponse returned, an HTTPException   *)
(* raised at one of the six raise sites, or another exception that leaves  *)
(* fetch_myntra_product and get_myntra_product uncaught.                   *)
(***************************************************************************)
NoOutcome == [kind |-> "none", status_code |-> 0, product |-> None]

HTTPException(kind, status_code) ==
    [kind |-> kind, status_code |-> status_code, product |-> None]

Returned(product) ==
    [kind |-> "ProductRecord", status_code |-> 200, product |-> product]

\* An exception that is not an HTTPException: nothing in main.py catches it.
Uncaught(e) == [kind |-> "Uncaught", status_code |-> 500, product |-> e]

\* Is the script text one that contains "pdpData"?
HasMarker(script) == script # "plain"

\* Index of the first script whose text contains the marker, 0 if none.
FirstMarked(scripts) ==
    LET hits == {i \in 1..Len(scripts) : HasMarker(scripts[i])}
    IN  IF hits = {} THEN 0 ELSE CHOOSE i \in hits : \A j \in hits : i <= j

(***************************************************************************)
(* Inputs: the URLs a request may carry, what the network may answer, and  *)
(* the objects the located script text may decode to.                      *)
(***************************************************************************)
Labels == {"myntra", ".com", "evil"}

SeqsUpTo(S, n) == UNION {[1..k -> S] : k \in 0..n}

Hosts == SeqsUpTo(Labels, MaxHostLen) \ {<<>>}

URLs ==
    [userinfo : {<<>>, <<"evil">>, Domain},
     host : Hosts,
     port : {<<>>, <<":443">>}]

StatusCodes == {200, 204, 403, 404, 503}

\* The text of a script element: without the marker, or with the marker and
\* no "{", an undecodable suffix, or a decodable object from the first "{".
ScriptTexts == {"plain", "marker_nobrace", "marker_badjson", "marker_json"}

\* The fetched markup: whether it contains either blocking phrase, and its
\* script elements in document order.
Pages ==
    [denied : BOOLEAN, permission : BOOLEAN,
     scripts : SeqsUpTo(ScriptTexts, MaxScripts)]

NoPage == [denied |-> FALSE, permission |-> FALSE, scripts |-> <<>>]

NoResponse == [ok |-> FALSE, status_code |-> 0, html |-> NoPage]

\* What requests.get does: raise a RequestException or return a response.
FetchResults ==
    {NoResponse} \cup [ok : {TRUE}, status_code : StatusCodes, html : Pages]

\* A key that may be absent, or present with one of the values vs.
Opt(k, vs) == {<<>>} \cup {k :> v : v \in vs}

\* The dict with the entries of the partial dicts a, b, c, d.
Join(a, b, c, d) == PyDict(a @@ b @@ c @@ d)

NameParts == Opt("name", {None, PyStr(""), PyStr("Shoe"), PyInt(5)})

ProductParts ==
    Opt("product", {None, EmptyDict, PyInt(7),
                    PyDict("productName" :> PyStr("Tee")),
                    PyDict("productName" :> PyList(<<PyInt(1)>>))})

TitleParts == {n @@ q : n \in NameParts, q \in ProductParts}

Image(f) == PyDict(f)

Albums(images) == PyDict("albums" :> PyList(<<PyDict("images" :> images)>>))

MediaParts ==
    Opt("media",
        {None, EmptyDict, PyInt(3),
         PyDict("albums" :> EmptyList),
         PyDict("albums" :> PyStr("x")),
         PyDict("albums" :> PyList(<<PyInt(5)>>)),
         PyDict("albums" :> PyList(<<EmptyDict>>)),
         Albums(EmptyList),
         Albums(PyStr("ab")),
         Albums(PyDict("k" :> PyInt(1))),
         Albums(PyList(<<None>>)),
         Albums(PyList(<<EmptyDict>>)),
         Albums(PyList(<<Image("secureSrc" :> PyStr("s") @@
                               "imageURL" :> PyStr("u") @@
                               "src" :> PyStr("r"))>>)),
         Albums(PyList(<<Image("secureSrc" :> PyStr("") @@
                               "imageURL" :> PyStr("u") @@
                               "src" :> PyStr("r"))>>)),
         Albums(PyList(<<Image("src" :> PyStr("r"))>>)),
         Albums(PyList(<<Image("src" :> PyInt(9))>>)),
         Albums(PyList(<<Image("src" :> PyStr("r")),
                         Image("secureSrc" :> PyStr("s2"))>>))})

FlagsParts ==
    Opt("flags", {None, EmptyDict, PyInt(1),
                  PyDict("outOfStock" :> PyBool(TRUE)),
                  PyDict("outOfStock" :> PyBool(FALSE)),
                  PyDict("outOfStock" :> None)})

\* Price candidates at the top level: integers, null, a non-numeric string,
\* the string "0", the float 0.5 and a list.
TopPrices ==
    {PyInt(n) : n \in (-1)..MaxPrice}
        \cup {None, PyStr("abc"), PyNumStr(0), PyFloat(1), PyList(<<PyInt(1)>>)}

NestedPrices == {PyInt(n) : n \in 0..MaxPrice}

PriceDicts ==
    {PyDict(a @@ b @@ c @@ d) :
        a \in Opt("mrp", NestedPrices),
        b \in Opt("marked", NestedPrices),
        c \in Opt("discountedPrice", NestedPrices),
        d \in Opt("effective", NestedPrices)}

PriceParts ==
    {a @@ b @@ c :
        a \in Opt("mrp", TopPrices),
        b \in Opt("discountedPrice", TopPrices),
        c \in Opt("price", PriceDicts \cup {None, PyInt(5)})}

\* One well-shaped and one ill-shaped choice for each group of fields, used
\* around the group that is varied in full.
FewTitles == {<<>>, "name" :> PyStr("Shoe"), "product" :> PyInt(7)}
FewMedia == {<<>>, "media" :> PyInt(3)}
FewPrices == {<<>>, "mrp" :> PyInt(2), "price" :> PyInt(5)}
FewFlags == {<<>>, "flags" :> PyDict("outOfStock" :> PyBool(TRUE))}

\* {"name":"Shoe","mrp":2000,"price":{"effective":1500},
\*  "flags":{"outOfStock":true}}
ShoeRecord ==
    PyDict("name" :> PyStr("Shoe") @@ "mrp" :> PyInt(2000) @@
           "price" :> PyDict("effective" :> PyInt(1500)) @@
           "flags" :> PyDict("outOfStock" :> PyBool(TRUE)))

\* Decoded objects without a "pdpData" key.
PlainRecords ==
    {Join(t, m, q, f) : t \in TitleParts, m \in FewMedia,
                        q \in FewPrices, f \in FewFlags}
    \cup {Join(t, m, q, f) : t \in FewTitles, m \in MediaParts,
                             q \in FewPrices, f \in FewFlags}
    \cup {Join(t, m, q, f) : t \in FewTitles, m \in FewMedia,
                             q \in FewPrices, f \in FlagsParts}
    \cup {Join(<<>>, <<>>, q, <<>>) : q \in PriceParts}
    \cup {ShoeRecord}

\* Values found under "pdpData".
PdpValues ==
    {None, EmptyDict, PyInt(0), PyList(<<PyInt(1)>>), ShoeRecord,
     PyDict("name" :> PyStr("Inner") @@ "mrp" :> PyInt(1))}

\* Decoded objects with a "pdpData" key next to other top-level fields.
WrappedRecords ==
    {PyDict(("pdpData" :> w) @@ t @@ q) :
        w \in PdpValues,
        t \in {<<>>, "name" :> PyStr("Outer")},
        q \in {<<>>, "mrp" :> PyInt(2)}}

\* json.loads of a text that starts with "{" yields a dict.
DecodedRecords == PlainRecords \cup WrappedRecords

\* The decoded objects followed through the whole request.
CoreRecords ==
    {EmptyDict, ShoeRecord,
     PyDict("pdpData" :> ShoeRecord),
     PyDict("pdpData" :> EmptyDict @@ "name" :> PyStr("Outer")),
     PyDict("pdpData" :> PyList(<<PyInt(1)>>)),
     PyDict("media" :> PyInt(3)),
     PyDict("name" :> PyInt(5)),
     PyDict("mrp" :> PyInt(-1)),
     PyDict("mrp" :> PyStr("abc")),
     PyDict("price" :> PyDict("mrp" :> PyInt(2)))}

(***************************************************************************)
(* The request, step by step.  stages records the steps that have run.     *)
(***************************************************************************)
Init ==
    /\ pc = "validate"
    /\ url \in URLs
    /\ fetches = 0
    /\ resp = NoResponse
    /\ script_text = "unset"
    /\ raw_data = None
    /\ data = None
    /\ outcome = NoOutcome
    /\ stages = <<>>

\* raise HTTPException(...): the request ends here.
Fail(kind, status_code) ==
    /\ outcome' = HTTPException(kind, status_code)
    /\ pc' = "done"

\* Step 1: only URLs whose netloc contains "myntra.com" go on.
Validate ==
    /\ pc = "validate"
    /\ stages' = Append(stages, "validate")
    /\ IF Rejected(url)
       THEN Fail("UnsupportedDomain", 400)
       ELSE pc' = "fetch" /\ outcome' = outcome
    /\ UNCHANGED <<url, fetches, resp, script_text, raw_data, data>>

\* Step 2: the one requests.get; a RequestException becomes a 502.
Fetch ==
    /\ pc = "fetch"
    /\ stages' = Append(stages, "fetch")
    /\ fetches' = fetches + 1
    /\ \E r \in FetchResults :
        /\ resp' = r
        /\ IF ~r.ok
           THEN Fail("UpstreamUnreachable", 502)
           ELSE pc' = "status" /\ outcome' = outcome
    /\ UNCHANGED <<url, script_text, raw_data, data>>

\* Variant: the blocking phrases are looked for before the status is.
CheckStatusAfterBlock ==
    /\ pc = "status"
    /\ stages' = Append(stages, "status")
    /\ IF resp.status_code # 200 /\ ~(resp.html.denied \/ resp.html.permission)
       THEN Fail("UpstreamHTTPError", resp.status_code)
       ELSE pc' = "block" /\ outcome' = outcome
    /\ UNCHANGED <<url, fetches, resp, script_text, raw_data, data>>

\* Variant: every non-200 answer is reported as a 502.
CheckStatusAsBadGateway ==
    /\ pc = "status"
    /\ stages' = Append(stages, "status")
    /\ IF resp.status_code # 200
       THEN Fail("UpstreamHTTPError", 502)
       ELSE pc' = "block" /\ outcome' = outcome
    /\ UNCHANGED <<url, fetches, resp, script_text, raw_data, data>>

\* if resp.status_code != 200: raise with the upstream status.
CheckStatus ==
    /\ pc = "status"
    /\ stages' = Append(stages, "status")
    /\ IF resp.status_code # 200
       THEN Fail("UpstreamHTTPError", resp.status_code)
       ELSE pc' = "block" /\ outcome' = outcome
    /\ UNCHANGED <<url, fetches, resp, script_text, raw_data, data>>

\* The blocking-page phrases in the body of a 200 response.
CheckBlocked ==
    /\ pc = "block"
    /\ stages' = Append(stages, "block")
    /\ IF resp.html.denied \/ resp.html.permission
       THEN Fail("UpstreamBlocked", 403)
       ELSE pc' = "locate" /\ outcome' = outcome
    /\ UNCHANGED <<url, fetches, resp, script_text, raw_data, data>>

\* Step 3: the first script whose text contains "pdpData".
Locate ==
    /\ pc = "locate"
    /\ stages' = Append(stages, "locate")
    /\ LET i == FirstMarked(resp.html.scripts)
       IN  IF i = 0
           THEN Fail("DataBlobNotFound", 500) /\ script_text' = script_text
           ELSE /\ script_text' = resp.html.scripts[i]
                /\ pc' = "decode"
                /\ outcome' = outcome
    /\ UNCHANGED <<url, fetches, resp, raw_data, data>>

\* Step 4: json.loads of the text from the first "{"; any exception of the
\* index or the decode becomes a 500.
Decode ==
    /\ pc = "decode"
    /\ stages' = Append(stages, "decode")
    /\ IF script_text = "marker_json"
       THEN \E raw \in CoreRecords :
                /\ raw_data' = raw
                /\ pc' = "map"
                /\ outcome' = outcome
       ELSE Fail("DataBlobParseError", 500) /\ raw_data' = raw_data
    /\ UNCHANGED <<url, fetches, resp, script_text, data>>

\* Steps 5 and 6: the field mapping and the ProductResponse; an exception
\* raised here is caught nowhere.
Map ==
    /\ pc = "map"
    /\ stages' = Append(stages, "map")
    /\ data' = EffectiveRecord(raw_data)
    /\ \E lax \in BOOLEAN :
        LET r == MapRecord(data', lax)
        IN  outcome' = IF IsErr(r) THEN Uncaught(r) ELSE Returned(r)
    /\ pc' = "done"
    /\ UNCHANGED <<url, fetches, resp, script_text, raw_data>>

Next ==
    \/ Validate
    \/ Fetch
    \/ CheckStatus
    \/ CheckBlocked
    \/ Locate
    \/ Decode
    \/ Map

Spec == Init /\ [][Next]_vars

(***************************************************************************)
(* The field mapper alone, over the full set of decoded objects: the       *)
(* request has passed validation, fetch, scan and decode.                  *)
(***************************************************************************)
InitMapper ==
    /\ pc = "map"
    /\ url = [userinfo |-> <<>>, host |-> Domain, port |-> <<>>]
    /\ fetches = 1
    /\ resp = [ok |-> TRUE, status_code |-> 200,
               html |-> [denied |-> FALSE, permission |-> FALSE,
                         scripts |-> <<"marker_json">>]]
    /\ script_text = "marker_json"
    /\ raw_data \in DecodedRecords
    /\ data = None
    /\ outcome = NoOutcome
    /\ stages = <<"validate", "fetch", "status", "block", "locate", "decode">>

NextMapper == Map

SpecMapper == InitMapper /\ [][NextMapper]_vars

(***************************************************************************)
(* Properties.                                                             *)
(***************************************************************************)
Range(f) == {f[i] : i \in DOMAIN f}

IsPrefix(a, b) == Len(a) <= Len(b) /\ SubSeq(b, 1, Len(a)) = a

Ran(stage) == stage \in Range(stages)

StageOrder ==
    <<"validate", "fetch", "status", "block", "locate", "decode", "map">>

\* The error kinds of the taxonomy.
ErrorKinds ==
    {"UnsupportedDomain", "UpstreamUnreachable", "UpstreamHTTPError",
     "UpstreamBlocked", "DataBlobNotFound", "DataBlobParseError",
     "SchemaMismatch"}

\* C1: a request whose URL host does not contain "myntra.com" never issues
\* a fetch, and ends with UnsupportedDomain, status 400.
C1_OffDomainNeverFetched ==
    ~Contains(url.host, Domain) =>
        /\ fetches = 0
        /\ ~Ran("fetch")
        /\ pc = "done" => outcome = HTTPException("UnsupportedDomain", 400)

\* C2 as stated: an upstream 403 whose body contains "Access Denied" ends
\* with UpstreamBlocked, status 403.
C2_Denied403IsBlocked ==
    (pc = "done" /\ resp.ok /\ resp.status_code = 403 /\ resp.html.denied)
        => outcome = HTTPException("UpstreamBlocked", 403)

\* C2 amended: an upstream 403 whose body contains "Access Denied" ends with
\* UpstreamHTTPError, status 403; UpstreamBlocked is the outcome of a 200
\* answer whose body contains a blocking phrase.
C2_Denied403IsHTTPError ==
    /\ (pc = "done" /\ resp.ok /\ resp.status_code = 403 /\ resp.html.denied)
          => outcome = HTTPException("UpstreamHTTPError", 403)
    /\ (pc = "done" /\ resp.ok /\ resp.status_code = 200 /\ resp.html.denied)
          => outcome = HTTPException("UpstreamBlocked", 403)

C2_Witness ==
    /\ pc = "done" /\ resp.ok /\ resp.status_code = 403 /\ resp.html.denied
    /\ outcome.kind = "UpstreamHTTPError"

\* C3: a non-200 answer, whatever its body, ends with UpstreamHTTPError
\* carrying the upstream status unchanged, and no later step runs.
C3_Non200PassedThrough ==
    (Ran("status") /\ resp.status_code # 200) =>
        /\ pc = "done"
        /\ outcome = HTTPException("UpstreamHTTPError", resp.status_code)
        /\ stages = <<"validate", "fetch", "status">>
        /\ raw_data = None /\ data = None

C3_Witness ==
    /\ pc = "done" /\ resp.ok /\ resp.status_code = 503
    /\ resp.html.denied /\ resp.html.scripts = <<"marker_json">>
    /\ outcome.status_code = 503

\* A decoded value whose shape the traversal cannot walk: "pdpData", "media",
\* "price" or "flags" holds a non-empty value that is not a mapping.
TruthyNonDict(x) == ~IsDict(x) /\ Truthy(x)

WrongShape ==
    /\ raw_data # None
    /\ \/ TruthyNonDict(Get(raw_data, "pdpData"))
       \/ /\ ~Truthy(Get(raw_data, "pdpData"))
          /\ \/ TruthyNonDict(Get(raw_data, "media"))
             \/ TruthyNonDict(Get(raw_data, "flags"))

\* C4: a decoded value of the wrong shape ends the request with
\* SchemaMismatch, status 500, never with an unclassified failure.
C4_WrongShapeIsSchemaMismatch ==
    (pc = "done" /\ Ran("map")) =>
        /\ outcome.kind \in ErrorKinds \cup {"ProductRecord"}
        /\ WrongShape => outcome = HTTPException("SchemaMismatch", 500)

\* C5: the steps run in the fixed order, at most one fetch is made, nothing
\* runs after a failure, and the request ends with exactly one outcome: a
\* complete record or one classified error.
C5_LinearTerminal ==
    /\ IsPrefix(stages, StageOrder)
    /\ fetches <= 1
    /\ fetches = (IF Ran("fetch") THEN 1 ELSE 0)
    /\ pc # "done" => outcome = NoOutcome
    /\ pc = "done" =>
        \/ /\ outcome.kind = "ProductRecord"
           /\ Ran("map")
           /\ outcome.product.t = "record"
        \/ /\ outcome.kind \in ErrorKinds
           /\ outcome.product = None

\* The part of C5 that does not depend on how a failure is classified.
C5_OrderOnly ==
    /\ IsPrefix(stages, StageOrder)
    /\ fetches = (IF Ran("fetch") THEN 1 ELSE 0)
    /\ pc # "done" => outcome = NoOutcome
    /\ pc = "done" => outcome # NoOutcome /\ ~(ENABLED Next)

(***************************************************************************)
(* Properties of the field mapper.                                         *)
(***************************************************************************)
MapReturned == pc = "done" /\ outcome.kind = "ProductRecord"

Has(x, k) == IsDict(x) /\ k \in DOMAIN x.v

\* The value under k in the nested price object of the effective record,
\* null when there is no such object or no such key.
Nested(k) ==
    IF Has(data, "price") /\ Has(data.v["price"], k)
    THEN data.v["price"].v[k] ELSE None

TopLevel(k) == IF Has(data, k) THEN data.v[k] ELSE None

NoOriginalField ==
    /\ ~Has(data, "mrp")
    /\ ~Has(data, "price") \/
         (IsDict(data.v["price"]) /\
          DOMAIN data.v["price"].v \cap {"mrp", "marked"} = {})

NoDiscountField ==
    /\ ~Has(data, "discountedPrice")
    /\ ~Has(data, "price") \/
         (IsDict(data.v["price"]) /\
          DOMAIN data.v["price"].v \cap {"discountedPrice", "effective"} = {})

\* C6: a returned record whose effective record has no discount field at any
\* fallback position has discounted_price equal to original_price.
C6_NoDiscountMeansOriginal ==
    (MapReturned /\ NoDiscountField) =>
        outcome.product.discounted_price = outcome.product.original_price

C6_Witness ==
    /\ MapReturned /\ NoDiscountField
    /\ outcome.product.original_price = PyInt(MaxPrice)
    /\ outcome.product.discounted_price = PyInt(MaxPrice)

Typed(r) ==
    /\ r.original_price.t = "int"
    /\ r.discounted_price.t = "int"
    /\ IsStr(r.title)
    /\ IsStr(r.primary_image)
    /\ r.in_stock.t = "bool"

\* C7 as stated: every returned record has non-negative integer prices, a
\* string title, a string primary_image and a boolean in_stock.
C7_PricesNonNegative ==
    MapReturned =>
        /\ Typed(outcome.product)
        /\ outcome.product.original_price.v >= 0
        /\ outcome.product.discounted_price.v >= 0

\* A number below zero, or text that spells one.
Negative(x) == x.t \in {"int", "float", "numstr"} /\ x.v < 0

NoNegativePriceField ==
    /\ \A k \in {"mrp", "discountedPrice"} : ~Negative(TopLevel(k))
    /\ \A n \in {"mrp", "marked", "discountedPrice", "effective"} :
            ~Negative(Nested(n))

\* C7 amended: every returned record has integer prices (never null), a
\* string title, a string primary_image and a boolean in_stock; the prices
\* are non-negative when no price field of the record is negative, and a
\* negative top-level mrp is returned as it is.
C7_PricesAreIntegers ==
    MapReturned =>
        /\ Typed(outcome.product)
        /\ NoNegativePriceField =>
              /\ outcome.product.original_price.v >= 0
              /\ outcome.product.discounted_price.v >= 0
        /\ (TopLevel("mrp").t = "int" /\ TopLevel("mrp").v < 0) =>
              outcome.product.original_price = TopLevel("mrp")

C7_Witness ==
    /\ MapReturned
    /\ outcome.product.original_price = PyInt(-1)
    /\ outcome.product.discounted_price = PyInt(-1)

\* C8 as stated: when the decoded value has the key "pdpData", the value
\* under it is the effective record, also when that value is falsy.
C8_DescendsWheneverKeyPresent ==
    (Ran("map") /\ Has(raw_data, "pdpData")) => data = raw_data.v["pdpData"]

\* C8 amended: the value under "pdpData" is the effective record when the
\* key is present and its value is truthy; when the key is absent or its
\* value is falsy (null, {}, 0), the decoded value itself is.
C8_DescendsWhenTruthy ==
    Ran("map") =>
        IF Has(raw_data, "pdpData") /\ Truthy(raw_data.v["pdpData"])
        THEN data = raw_data.v["pdpData"]
        ELSE data = raw_data

C8_Witness ==
    /\ MapReturned
    /\ Has(raw_data, "pdpData") /\ raw_data.v["pdpData"] = EmptyDict
    /\ data = raw_data
    /\ outcome.product.title = PyStr("Outer")

DefaultRecord ==
    [t |-> "record",
     title |-> PyStr("Unknown Product"),
     primary_image |-> PyStr(""),
     original_price |-> PyInt(0),
     discounted_price |-> PyInt(0),
     in_stock |-> PyBool(TRUE)]

\* The image descent of the effective record stops at an absent step: no
\* media, no albums, no album, no images, no image, or an image without
\* any of the three fields.
LacksImage ==
    \/ ~Has(data, "media")
    \/ /\ IsDict(data.v["media"])
       /\ LET media == data.v["media"]
          IN  \/ ~Has(media, "albums")
              \/ media.v["albums"] = EmptyList
              \/ /\ IsList(media.v["albums"]) /\ Len(media.v["albums"].v) > 0
                 /\ IsDict(media.v["albums"].v[1])
                 /\ LET album == media.v["albums"].v[1]
                    IN  \/ ~Has(album, "images")
                        \/ album.v["images"] = EmptyList
                        \/ /\ IsList(album.v["images"])
                           /\ Len(album.v["images"].v) > 0
                           /\ IsDict(album.v["images"].v[1])
                           /\ DOMAIN album.v["images"].v[1].v
                                \cap {"secureSrc", "imageURL", "src"} = {}

SourceKeys ==
    {"name", "product", "media", "price", "mrp", "discountedPrice", "flags"}

\* C9: missing data never raises.  For an effective record that is a
\* mapping, a field whose sources are all absent takes its default; a record
\* with no source field at all, {} included, maps to the default record
\* without error; a record lacking the image descent gives primary_image "".
C9_MissingDataDefaults ==
    (pc = "done" /\ IsDict(data)) =>
        /\ DOMAIN data.v \cap SourceKeys = {} =>
              outcome = Returned(DefaultRecord)
        /\ (LacksImage /\ DOMAIN data.v \subseteq {"media", "pdpData"}) =>
              /\ outcome.kind = "ProductRecord"
              /\ outcome.product.primary_image = PyStr("")
        /\ MapReturned =>
              /\ DOMAIN data.v \cap {"name", "product"} = {} =>
                    outcome.product.title = PyStr("Unknown Product")
              /\ LacksImage => outcome.product.primary_image = PyStr("")
              /\ NoOriginalField =>
                    outcome.product.original_price = PyInt(0)
              /\ NoDiscountField =>
                    outcome.product.discounted_price =
                        outcome.product.original_price
              /\ ~Has(data, "flags") =>
                    outcome.product.in_stock = PyBool(TRUE)

C9_Witness ==
    /\ pc = "done" /\ raw_data = EmptyDict /\ data = EmptyDict
    /\ outcome = Returned(DefaultRecord)

\* The first truthy value of the candidates cs, else the default dflt.
FirstTruthy(cs, dflt) ==
    IF \E i \in 1..Len(cs) : Truthy(cs[i])
    THEN cs[CHOOSE i \in 1..Len(cs) :
                Truthy(cs[i]) /\ \A j \in 1..(i - 1) : ~Truthy(cs[j])]
    ELSE dflt

OriginalChosen ==
    FirstTruthy(<<TopLevel("mrp"), Nested("mrp"), Nested("marked")>>,
                PyInt(0))

DiscountedChosen ==
    FirstTruthy(<<TopLevel("discountedPrice"), Nested("discountedPrice"),
                  Nested("effective")>>,
                OriginalChosen)

ShoeResult ==
    [t |-> "record",
     title |-> PyStr("Shoe"),
     primary_image |-> PyStr(""),
     original_price |-> PyInt(2000),
     discounted_price |-> PyInt(1500),
     in_stock |-> PyBool(FALSE)]

\* C10: original_price is the first truthy value among mrp, price.mrp and
\* price.marked, else 0; discounted_price is the first truthy value among
\* discountedPrice, price.discountedPrice and price.effective, else the
\* resolved original_price; both read as integers.  The Shoe record maps to
\* {"Shoe", "", 2000, 1500, false}.
C10_PriceFallbackOrder ==
    /\ MapReturned =>
          /\ outcome.product.original_price = PyIntCast(OriginalChosen)
          /\ outcome.product.discounted_price = PyIntCast(DiscountedChosen)
          /\ OriginalChosen.t = "int" =>
                outcome.product.original_price = OriginalChosen
          /\ DiscountedChosen.t = "int" =>
                outcome.product.discounted_price = DiscountedChosen
    /\ (pc = "done" /\ data = ShoeRecord) => outcome = Returned(ShoeResult)

C10_Witness ==
    /\ MapReturned
    /\ TopLevel("mrp") = None
    /\ Nested("mrp") = PyInt(1) /\ Nested("marked") = PyInt(2)
    /\ Nested("discountedPrice") = PyInt(0) /\ Nested("effective") = PyInt(2)
    /\ outcome.product.original_price = PyInt(1)
    /\ outcome.product.discounted_price = PyInt(2)

====
